---- MODULE Spec2Model ----
(***************************************************************************)
(* qrlocal: a local-network URL shortener (src/index.js).                  *)
(*                                                                         *)
(* The state is the redirects table of the SQLite store, the database      *)
(* clock, and one closure per HTTP request in flight.  Every action is one *)
(* turn of the event loop: the synchronous part of a handler, or one SQL   *)
(* statement together with the callback that receives its result.  The    *)
(* store executes each statement atomically; between two statements of one *)
(* request any statement of any other request may run.                     *)
(***************************************************************************)
EXTENDS Integers, Sequences, FiniteSets, TLC

\* ------------------------------------------------------------------ bounds

\* Number of HTTP requests served in one behaviour of the racing workload.
NumReqs == 3

\* Number of HTTP requests served in one behaviour of the wide workload.
WideReqs == 1

\* Number of HTTP requests served in one behaviour of the faulty workload.
FaultyReqs == 2

\* The database clock (CURRENT_TIMESTAMP) runs from 1 to MaxClock.
MaxClock == 2

\* The longest argument list of the arguments workload.
MaxArgs == 2

\* ------------------------------------------------------- program constants

\* const maxAttempts = 10 in generateBase32Id.
maxAttempts == 10

\* last_visit DATETIME without a default is NULL; timestamps start at 1.
NULL == 0

\* let maxBase32Length = 7
DefaultLength == 7

\* qrVersion > 40
MaxQrVersion == 40

\* ------------------------------------------------------------- characters

UpperLetters ==
    << "A","B","C","D","E","F","G","H","I","J","K","L","M",
       "N","O","P","Q","R","S","T","U","V","W","X","Y","Z" >>

LowerLetters ==
    << "a","b","c","d","e","f","g","h","i","j","k","l","m",
       "n","o","p","q","r","s","t","u","v","w","x","y","z" >>

Base32Digits == { "2","3","4","5","6","7" }

Range(f) == { f[i] : i \in DOMAIN f }

\* String.prototype.toLowerCase on one character.
LowerChar(c) ==
    IF c \in Range(UpperLetters)
    THEN LowerLetters[CHOOSE i \in DOMAIN UpperLetters : UpperLetters[i] = c]
    ELSE c

\* String.prototype.toLowerCase: strings are sequences of characters.
ToLowerCase(s) == [ i \in DOMAIN s |-> LowerChar(s[i]) ]

\* String.prototype.toUpperCase on one character.
UpperChar(c) ==
    IF c \in Range(LowerLetters)
    THEN UpperLetters[CHOOSE i \in DOMAIN LowerLetters : LowerLetters[i] = c]
    ELSE c

\* String.prototype.toUpperCase
ToUpperCase(s) == [ i \in DOMAIN s |-> UpperChar(s[i]) ]

\* One character of the class [A-Z2-7] under the i flag.
IsBase32Char(c) ==
    c \in Range(UpperLetters) \cup Range(LowerLetters) \cup Base32Digits

\* The pattern without its anchors: /[A-Z2-7]+/i.test(key)
MatchesUnanchored(s) == \E i \in DOMAIN s : IsBase32Char(s[i])

\* /^[A-Z2-7]+$/i.test(key)
MatchesBase32(s) == Len(s) >= 1 /\ \A i \in DOMAIN s : IsBase32Char(s[i])

\* --------------------------------------------------------- identifier codec

\* The alphabet of the base32 package, by 5-bit value 0..31.
Base32Alphabet ==
    << "0","1","2","3","4","5","6","7","8","9","a","b","c","d","e","f",
       "g","h","j","k","m","n","p","q","r","t","u","v","w","x","y","z" >>

HexDigits ==
    << "0","1","2","3","4","5","6","7","8","9","a","b","c","d","e","f" >>

\* charCodeAt of a character of a hex digest: "0" is 48, "a" is 97.
CharCode(h) ==
    LET i == CHOOSE k \in DOMAIN HexDigits : HexDigits[k] = h
    IN  IF i <= 10 THEN 47 + i ELSE 86 + i

\* Sixteen bits of the byte string that base32.encode reads, from byte b on
\* (b counts from 0; past the end the bits are 0): the digest is handed over
\* as its hex text, one byte per hex digit.
Bits16(hex, b) ==
    (IF b + 1 <= Len(hex) THEN CharCode(hex[b + 1]) * 256 ELSE 0)
        + (IF b + 2 <= Len(hex) THEN CharCode(hex[b + 2]) ELSE 0)

\* The number of characters of base32.encode(hash): one per group of five
\* bits, the last group filled up with zero bits.
EncodedLength(hex) == (8 * Len(hex) + 4) \div 5

\* The k-th character of base32.encode(hash): the k-th group of five bits,
\* most significant first.
Base32CharAt(hex, k) ==
    LET start == 5 * (k - 1)
        group == (Bits16(hex, start \div 8) \div 2^(11 - (start % 8))) % 32
    IN  Base32Alphabet[group + 1]

\* The id without substring(0, maxBase32Length): the whole encoding.
EncodeIdUntruncated(hex, n) ==
    ToLowerCase([ k \in 1..EncodedLength(hex) |-> Base32CharAt(hex, k) ])

\* base32.encode(hash).toLowerCase().replace(/=/g, '').substring(0, n): the
\* encoder emits no '=', and substring stops at the end of the string.
EncodeId(hex, n) ==
    ToLowerCase([ k \in 1..(IF n <= EncodedLength(hex)
                            THEN n ELSE EncodedLength(hex))
                    |-> Base32CharAt(hex, k) ])

\* ------------------------------------------------------------------ inputs

\* Values of body.url / query.url: absent, not parsable by new URL(), and two
\* absolute URLs.
NoUrl == ""

URLs == { NoUrl, "not a url", "http://a", "http://b" }

\* new URL(url) does not throw.
UrlParses(u) == u \in { "http://a", "http://b" }

\* Values of body.key: absent, a number (0 is falsy, 5 is truthy), a string.
KeyAbsent == [ type |-> "undefined", str |-> << >>, num |-> 0 ]

KeyNumber(n) == [ type |-> "number", str |-> << >>, num |-> n ]

KeyString(s) == [ type |-> "string", str |-> s, num |-> 0 ]

KeyStrings ==
    { << >>, <<"c">>, <<"C">>, <<"6">>, <<"C","c">>, <<"c","!">>,
      <<"c","c","c">> }

Keys ==
    { KeyAbsent, KeyNumber(0), KeyNumber(5) } \cup { KeyString(s) : s \in KeyStrings }

\* JavaScript truthiness of body.key.
Truthy(k) ==
    CASE k.type = "undefined" -> FALSE
      [] k.type = "number"    -> k.num # 0
      [] k.type = "string"    -> Len(k.str) # 0

\* The path parameter of GET /:base32id and DELETE /api/delete/:id.
Params == { <<"c">>, <<"C">>, <<"6">>, <<"c","c">>, <<"C","c">> }

\* The lengths that the command lines of the wide workload ask for.
Lengths == { 1, 2 }

\* if (length > 0 && length <= 20): the longest length the process accepts.
MaxConfigurableLength == 20

\* Every length the process can run with: the default 7 is among them.
ConfigurableLengths == 1..MaxConfigurableLength

\* The inputs of the racing workload: well-formed requests that contend for
\* the ids "c" and "6" under the shortest configured length.  Adds bring a
\* url other than the one of the row the table may start with.
RacingURLs == { "http://a", "http://b" }

RacingAddURLs == { "http://b" }

RacingKeys == { KeyAbsent, KeyString(<<"c">>), KeyString(<<"C">>) }

RacingParams == { <<"c">>, <<"C">>, <<"6">> }

RacingLengths == { 1 }

\* The three routes that answer with the QR code of a record.
QrRoutes == { "/qr/:id/png", "/download/qr/:id/png", "/download/qr/:id/svg" }

RacingQrRoutes == { "/qr/:id/png" }

\* The length of digest('hex') of md5: 128 bits, two hex digits a byte.
DigestLength == 32

\* The host's zone: UTC, or one hour behind it.
HostOffsets == { 0, 1 }

\* The racing, faulty and sized workloads run on a host in UTC.
RacingOffsets == { 0 }

\* Hex digests md5 may return: two that differ in their first digit.
Digests ==
    { [ i \in 1..DigestLength |-> "0" ],
      [ i \in 1..DigestLength |-> IF i = 1 THEN "c" ELSE "0" ] }

\* --------------------------------------------------------------- arguments

\* The value of a character as a digit, or -1 when it is none.
DigitValue(c) ==
    IF LowerChar(c) \in Range(HexDigits)
    THEN (CHOOSE i \in DOMAIN HexDigits : HexDigits[i] = LowerChar(c)) - 1
    ELSE -1

IsDigit(c, radix) == DigitValue(c) >= 0 /\ DigitValue(c) < radix

\* The string from its i-th character on.
From(str, i) == [ k \in 1..(Len(str) - i + 1) |-> str[k + i - 1] ]

RECURSIVE StripLeadingSpaces(_)
StripLeadingSpaces(str) ==
    IF str # << >> /\ str[1] = " " THEN StripLeadingSpaces(From(str, 2)) ELSE str

\* The number written by the longest prefix of digits of the radix.
RECURSIVE PrefixValue(_, _, _)
PrefixValue(str, radix, acc) ==
    IF str = << >> \/ ~IsDigit(str[1], radix)
    THEN acc
    ELSE PrefixValue(From(str, 2), radix, acc * radix + DigitValue(str[1]))

NaN == [ nan |-> TRUE, value |-> 0 ]

\* parseInt(string) without a radix: leading white space, a sign, 0x or 0X
\* for radix 16, then the longest prefix of digits; NaN when there is none.
ParseInt(string) ==
    LET trimmed  == StripLeadingSpaces(string)
        negative == trimmed # << >> /\ trimmed[1] = "-"
        unsigned == IF trimmed # << >> /\ trimmed[1] \in { "-", "+" }
                    THEN From(trimmed, 2) ELSE trimmed
        hex      == /\ Len(unsigned) >= 2
                    /\ unsigned[1] = "0"
                    /\ unsigned[2] \in { "x", "X" }
        digits   == IF hex THEN From(unsigned, 3) ELSE unsigned
        radix    == IF hex THEN 16 ELSE 10
    IN  IF digits = << >> \/ ~IsDigit(digits[1], radix)
        THEN NaN
        ELSE [ nan   |-> FALSE,
               value |-> IF negative
                         THEN 0 - PrefixValue(digits, radix, 0)
                         ELSE PrefixValue(digits, radix, 0) ]

\* The options of the command line, in their long and short spelling.
QrErrorOption == { <<"-","-","q","r","-","e","r","r","o","r">>, <<"-","e">> }

QrVersionOption ==
    { <<"-","-","q","r","-","v","e","r","s","i","o","n">>, <<"-","v">> }

QrModeOption == { <<"-","-","q","r","-","m","o","d","e">>, <<"-","m">> }

HelpOption == { <<"-","-","h","e","l","p">>, <<"-","h">> }

\* ['L', 'M', 'Q', 'H']
ErrorCorrectionLevels == { <<"L">>, <<"M">>, <<"Q">>, <<"H">> }

\* ['numeric', 'alphanumeric', 'byte']
QrModes ==
    { <<"n","u","m","e","r","i","c">>,
      <<"a","l","p","h","a","n","u","m","e","r","i","c">>,
      <<"b","y","t","e">> }

\* The settings as the let declarations leave them; exit is "none" while
\* the process runs.
DefaultSettings ==
    [ maxBase32Length   |-> DefaultLength,
      qrErrorCorrection |-> <<"Q">>,
      qrVersion         |-> NULL,
      qrMode            |-> <<"a","l","p","h","a","n","u","m","e","r","i","c">>,
      exit              |-> "none" ]

\* The range test left out: every numeric argument is a length.
LengthAcceptedUnchecked(length) == TRUE

\* if (length > 0 && length <= 20)
LengthAccepted(length) == length > 0 /\ length <= 20

\* The for loop over args from index i on, with the settings so far;
\* args[++i] of an option is undefined past the end of the list.
RECURSIVE ParseArgs(_, _, _)
ParseArgs(argv, i, settings) ==
    IF i > Len(argv)
    THEN settings
    ELSE
      LET arg     == argv[i]
          hasNext == i + 1 <= Len(argv)
          value   == IF hasNext THEN argv[i + 1] ELSE << >>
      IN
        CASE arg \in QrErrorOption ->
               LET level == IF value = << >> THEN <<"Q">> ELSE value
               IN  IF ToUpperCase(level) \notin ErrorCorrectionLevels
                   THEN [ settings EXCEPT !.qrErrorCorrection = level,
                                          !.exit = "exit(1)" ]
                   ELSE ParseArgs(argv, i + 2,
                            [ settings EXCEPT
                                !.qrErrorCorrection = ToUpperCase(level) ])
          [] arg \in QrVersionOption ->
               LET version == IF hasNext THEN ParseInt(value) ELSE NaN
               IN  IF \/ version.nan
                      \/ version.value < 1
                      \/ version.value > MaxQrVersion
                   THEN [ settings EXCEPT
                            !.qrVersion = IF version.nan THEN NULL
                                          ELSE version.value,
                            !.exit = "exit(1)" ]
                   ELSE ParseArgs(argv, i + 2,
                            [ settings EXCEPT !.qrVersion = version.value ])
          [] arg \in QrModeOption ->
               LET mode == IF value = << >>
                           THEN <<"a","l","p","h","a","n","u","m","e","r","i","c">>
                           ELSE value
               IN  IF ToLowerCase(mode) \notin QrModes
                   THEN [ settings EXCEPT !.qrMode = mode, !.exit = "exit(1)" ]
                   ELSE ParseArgs(argv, i + 2,
                            [ settings EXCEPT !.qrMode = ToLowerCase(mode) ])
          [] arg \in HelpOption ->
               [ settings EXCEPT !.exit = "exit(0)" ]
          [] OTHER ->
               LET length == ParseInt(arg)
               IN  IF length.nan
                   THEN ParseArgs(argv, i + 1, settings)
                   ELSE IF LengthAccepted(length.value)
                        THEN ParseArgs(argv, i + 1,
                                 [ settings EXCEPT
                                     !.maxBase32Length = length.value ])
                        ELSE [ settings EXCEPT !.exit = "exit(1)" ]

\* The decimal text of a number below 100.
DecimalText(n) ==
    IF n < 10
    THEN << HexDigits[n + 1] >>
    ELSE << HexDigits[(n \div 10) + 1], HexDigits[(n % 10) + 1] >>

\* The command line that asks for one length and nothing else.
LengthArgs(lengths) == { << DecimalText(n) >> : n \in lengths }

\* Arguments of the arguments workload: lengths inside and outside the
\* range, texts that parseInt reads in part or not at all, and options.
ArgTokens ==
    { <<"2","0">>, <<"2","1">>, <<"0">>, <<"-","5">>, <<"1","e","3">>,
      <<"a","b","c">>, <<"h">>,
      <<"-","h">>, <<"-","v">>, <<"-","e">>, <<"-","m">> }

ArgLists == UNION { [ 1..n -> ArgTokens ] : n \in 0..MaxArgs }

\* ------------------------------------------------------------------- state

VARIABLES
    workload,         \* which inputs a behaviour draws: "racing", "wide",
                      \* "faulty" (the racing inputs over a store whose
                      \* statements may fail), "sized" (the wide inputs
                      \* under every configurable length) or "args" (the
                      \* racing inputs after every command line)
    args,             \* process.argv.slice(2)
    phase,            \* "starting", "listening", "exit(0)" or "exit(1)"
    maxBase32Length,  \* the configured id length
    qrErrorCorrection, qrVersion, qrMode,  \* the settings of the QR codes
    hostOffset,       \* hours the host's local time is behind UTC
    store,            \* the rows of table redirects
    now,              \* CURRENT_TIMESTAMP
    req,              \* per request: the handler's closure and its response
    nextSeq,          \* history: serial number of the next inserted row
    deleted,          \* history: serial numbers of the rows deleted so far
    raced             \* history: pairs of adds that stood at their insert
                      \* with the same id at the same time

\* What the start of the process reads and sets, and no request changes.
settings ==
    << args, phase, maxBase32Length, qrErrorCorrection, qrVersion, qrMode >>

vars ==
    << workload, settings, hostOffset, store, now, req, nextSeq,
       deleted, raced >>

Reqs ==
    1..(CHOOSE n \in { NumReqs, WideReqs, FaultyReqs } :
            \A m \in { NumReqs, WideReqs, FaultyReqs } : n >= m)

\* The requests a behaviour serves, and the inputs it draws them from.
Served ==
    CASE workload = "wide"   -> 1..WideReqs
      [] workload = "sized"  -> 1..WideReqs
      [] workload = "args"   -> 1..WideReqs
      [] workload = "faulty" -> 1..FaultyReqs
      [] OTHER               -> 1..NumReqs

UrlInputs == IF workload \in { "wide", "sized" } THEN URLs ELSE RacingURLs

AddUrlInputs == IF workload \in { "wide", "sized" } THEN URLs ELSE RacingAddURLs

KeyInputs == IF workload \in { "wide", "sized" } THEN Keys ELSE RacingKeys

ParamInputs == IF workload \in { "wide", "sized" } THEN Params ELSE RacingParams

QrRouteInputs == IF workload \in { "wide", "sized" } THEN QrRoutes ELSE RacingQrRoutes

\* A row of CREATE TABLE redirects; seq is a history field that tells the
\* records created under one id apart.
Row(seq, id, url, created) ==
    [ seq |-> seq, id |-> id, url |-> url, created |-> created,
      visits |-> 0, last_visit |-> NULL ]

NoRow == Row(0, << >>, NoUrl, NULL)

\* What the callbacks of the redirect and delete handlers read of the row
\* they are handed: row.id and row.url.
IdAndUrl(row) == Row(row.seq, row.id, row.url, NULL)

\* The created, visits and last_visit of a body that carries none.
NoDetails == [ created |-> NULL, visits |-> 0, last_visit |-> NULL ]

\* What a response carries: status, the kind of body, the id and url in it,
\* and the further fields of the body of a check.
Response(status, body, id, url) ==
    [ status |-> status, body |-> body, id |-> id, url |-> url,
      details |-> NoDetails ]

NoResponse == Response(0, "", << >>, NoUrl)

IdleReq ==
    [ op |-> "none", pc |-> "idle", url |-> NoUrl, key |-> KeyAbsent,
      param |-> << >>, id |-> << >>, attempts |-> 0,
      row |-> NoRow, resp |-> NoResponse, created |-> 0, rejected |-> FALSE,
      failed |-> "none", removed |-> {}, at |-> 0,
      route |-> "none", listing |-> << >>, candidate |-> << >> ]

\* The table as the process finds it at startup: redirects.db persists.
InitStores == { {}, { Row(1, <<"c">>, "http://a", 1) } }

\* The process before its first statement: the let declarations of the
\* settings (index.js:11-14) have their initial values.
Starting ==
    /\ phase = "starting"
    /\ maxBase32Length = DefaultSettings.maxBase32Length
    /\ qrErrorCorrection = DefaultSettings.qrErrorCorrection
    /\ qrVersion = DefaultSettings.qrVersion
    /\ qrMode = DefaultSettings.qrMode

Init ==
    /\ workload = "racing"
    /\ args \in LengthArgs(RacingLengths)
    /\ Starting
    /\ hostOffset \in RacingOffsets
    /\ store \in InitStores
    /\ now = 1
    /\ req = [ r \in Reqs |-> IdleReq ]
    /\ nextSeq = Cardinality(store) + 1
    /\ deleted = {}
    /\ raced = {}

InitWide ==
    /\ workload = "wide"
    /\ args \in LengthArgs(Lengths)
    /\ Starting
    /\ hostOffset \in HostOffsets
    /\ store \in InitStores
    /\ now = 1
    /\ req = [ r \in Reqs |-> IdleReq ]
    /\ nextSeq = Cardinality(store) + 1
    /\ deleted = {}
    /\ raced = {}

InitSized ==
    /\ workload = "sized"
    /\ args \in LengthArgs(ConfigurableLengths)
    /\ Starting
    /\ hostOffset \in RacingOffsets
    /\ store \in InitStores
    /\ now = 1
    /\ req = [ r \in Reqs |-> IdleReq ]
    /\ nextSeq = Cardinality(store) + 1
    /\ deleted = {}
    /\ raced = {}

InitArgs ==
    /\ workload = "args"
    /\ args \in ArgLists
    /\ Starting
    /\ hostOffset \in RacingOffsets
    /\ store \in InitStores
    /\ now = 1
    /\ req = [ r \in Reqs |-> IdleReq ]
    /\ nextSeq = Cardinality(store) + 1
    /\ deleted = {}
    /\ raced = {}

InitFaulty ==
    /\ workload = "faulty"
    /\ args \in LengthArgs(RacingLengths)
    /\ Starting
    /\ hostOffset \in RacingOffsets
    /\ store \in InitStores
    /\ now = 1
    /\ req = [ r \in Reqs |-> IdleReq ]
    /\ nextSeq = Cardinality(store) + 1
    /\ deleted = {}
    /\ raced = {}

\* ------------------------------------------------------------------- store

\* SELECT ... FROM redirects WHERE id = ?
RowsById(s, id) == { row \in s : row.id = id }

\* The SELECT without its WHERE clause: SELECT * FROM redirects
RowsByUrlUnfiltered(s, url) == s

\* SELECT * FROM redirects WHERE url = ?
RowsByUrl(s, url) == { row \in s : row.url = url }

\* A table whose id column is no key: no INSERT fails.
NoPrimaryKey(s, id) == FALSE

\* id TEXT PRIMARY KEY: an INSERT of an id already in the table fails.
PrimaryKeyConflict(s, id) == RowsById(s, id) # {}

\* An INSERT that stores nothing and reports no error.
InsertRowIgnored(s, seq, id, url, t) == s

\* INSERT INTO redirects (id, url) VALUES (?, ?), defaults from the schema.
InsertRow(s, seq, id, url, t) == s \cup { Row(seq, id, url, t) }

\* The count written from the value the lookup read when every lookup ran
\* before any update: SET visits = 1.
RecordVisitFromStaleRead(s, id, t) ==
    { IF row.id = id
      THEN [ row EXCEPT !.visits = 1, !.last_visit = t ]
      ELSE row : row \in s }

\* The UPDATE with the sign of its step wrong: SET visits = visits - 1.
RecordVisitDecrements(s, id, t) ==
    { IF row.id = id
      THEN [ row EXCEPT !.visits = @ - 1, !.last_visit = t ]
      ELSE row : row \in s }

\* The UPDATE without its second assignment: SET visits = visits + 1.
RecordVisitCountOnly(s, id, t) ==
    { IF row.id = id THEN [ row EXCEPT !.visits = @ + 1 ] ELSE row : row \in s }

\* The UPDATE with one assignment more: created = CURRENT_TIMESTAMP.
RecordVisitTouchesCreated(s, id, t) ==
    { IF row.id = id
      THEN [ row EXCEPT !.visits = @ + 1, !.last_visit = t, !.created = t ]
      ELSE row : row \in s }

\* The UPDATE without its first assignment: SET last_visit = CURRENT_TIMESTAMP.
RecordVisitStampOnly(s, id, t) ==
    { IF row.id = id THEN [ row EXCEPT !.last_visit = t ] ELSE row : row \in s }

\* The UPDATE without its WHERE clause: every row is counted.
RecordVisitUnfiltered(s, id, t) ==
    { [ row EXCEPT !.visits = @ + 1, !.last_visit = t ] : row \in s }

\* UPDATE redirects SET visits = visits + 1, last_visit = CURRENT_TIMESTAMP
\* WHERE id = ?
RecordVisit(s, id, t) ==
    { IF row.id = id
      THEN [ row EXCEPT !.visits = @ + 1, !.last_visit = t ]
      ELSE row : row \in s }

\* The DELETE whose WHERE clause matches no row.
DeleteRowsMatchesNone(s, id) == s

\* The DELETE without its WHERE clause: DELETE FROM redirects
DeleteRowsUnfiltered(s, id) == {}

\* DELETE FROM redirects WHERE id = ?
DeleteRows(s, id) == s \ RowsById(s, id)

\* CURRENT_TIMESTAMP as a statement reads it: the clock has a resolution of
\* one second, so it shows the time of the last reading or a later one.
ClockReadings == { t \in now..(now + 1) : t <= MaxClock }

\* How a statement ends: its callback is handed err = null, or an error.
StatementOutcomes ==
    IF workload = "faulty" THEN { "ok", "error" } ELSE { "ok" }

\* res.status(500) with 'Database error', the answer of the callbacks to err.
DatabaseError == Response(500, "Database error", << >>, NoUrl)

\* What becomes of a request whose async handler rejects outside every try:
\* the promise the handler returned is dropped and no response is ever sent
\* (express 4), or the framework's error handler answers 500 (express 5).
RejectionOutcomes == { "unanswered", "answered" }

\* The top level of index.js: the arguments are parsed, and unless the
\* parsing has left the process, the table is opened and the app listens.
Startup ==
    /\ phase = "starting"
    /\ LET parsed == ParseArgs(args, 1, DefaultSettings)
       IN  /\ maxBase32Length' = parsed.maxBase32Length
           /\ qrErrorCorrection' = parsed.qrErrorCorrection
           /\ qrVersion' = parsed.qrVersion
           /\ qrMode' = parsed.qrMode
           /\ phase' = IF parsed.exit = "none" THEN "listening" ELSE parsed.exit
    /\ UNCHANGED << workload, args, hostOffset, store, now, req, nextSeq, deleted, raced >>

\* Requests start in slot order: slots are interchangeable.
CanStart(r) ==
    /\ phase = "listening"
    /\ r \in Served
    /\ req[r].pc = "idle"
    /\ \A q \in Reqs : q < r => req[q].pc # "idle"

\* History: the adds that stand at their insert with id when r arrives there.
RacedWith(r, id) ==
    { {r, q} : q \in { x \in Reqs \ {r} :
                         /\ req[x].op = "add"
                         /\ req[x].pc = "insert"
                         /\ req[x].id = id } }

\* ---------------------------------------------------------- POST /api/add

\* The validation without new URL(url): any non-empty url passes.
AddRouteUrlUnparsed(u, k, n) ==
    IF u = NoUrl THEN "URL is required"
    ELSE IF Truthy(k)
         THEN IF k.type # "string" \/ Len(k.str) = 0 \/ Len(k.str) > n
              THEN "Custom key must be a string between 1 and N characters"
              ELSE IF ~MatchesBase32(k.str)
                   THEN "Custom key must contain only base32 characters (A-Z, 2-7)"
                   ELSE "custom"
         ELSE "generate"

\* The validation with the alphabet rule ahead of the length rule.
AddRouteAlphabetFirst(u, k, n) ==
    IF u = NoUrl THEN "URL is required"
    ELSE IF ~UrlParses(u) THEN "Invalid URL format"
    ELSE IF Truthy(k)
         THEN IF k.type = "string" /\ Len(k.str) > 0 /\ ~MatchesBase32(k.str)
              THEN "Custom key must contain only base32 characters (A-Z, 2-7)"
              ELSE IF k.type # "string" \/ Len(k.str) = 0 \/ Len(k.str) > n
                   THEN "Custom key must be a string between 1 and N characters"
                   ELSE "custom"
         ELSE "generate"

\* Where the synchronous part of the handler leads for body {url, key}.
AddRoute(u, k, n) ==
    IF u = NoUrl THEN "URL is required"
    ELSE IF ~UrlParses(u) THEN "Invalid URL format"
    ELSE IF Truthy(k)
         THEN IF k.type # "string" \/ Len(k.str) = 0 \/ Len(k.str) > n
              THEN "Custom key must be a string between 1 and N characters"
              ELSE IF ~MatchesBase32(k.str)
                   THEN "Custom key must contain only base32 characters (A-Z, 2-7)"
                   ELSE "custom"
         ELSE "generate"

\* key.toLowerCase(): the id of a custom key, in the existence check and in
\* the INSERT.
CustomId(k) == ToLowerCase(k.str)

\* The existence check with the key as given, not lowercased.
KeyTakenAsGiven(s, k) == RowsById(s, k.str) # {}

\* The row of the existence check of a custom key came back: if (existing).
KeyTaken(s, k) == RowsById(s, CustomId(k)) # {}

\* The test of the existence check dropped: every candidate is returned.
CandidateFreeUnchecked(s, id) == TRUE

\* if (!existing): the SELECT by the candidate handed over no row.
CandidateFree(s, id) == RowsById(s, id) = {}

\* The loop condition off by one: attempts <= maxAttempts.
LoopContinuesInclusive(attempts) == attempts <= maxAttempts

\* while (attempts < maxAttempts)
LoopContinues(attempts) == attempts < maxAttempts

\* The handler up to its first await: validation of url and key.
AddStart(r) ==
    /\ CanStart(r)
    /\ \E u \in AddUrlInputs, k \in KeyInputs :
         LET route == AddRoute(u, k, maxBase32Length)
             started == [ req[r] EXCEPT !.op = "add", !.url = u, !.key = k ]
         IN  req' = [ req EXCEPT ![r] =
                 CASE route = "custom"   -> [ started EXCEPT !.pc = "check" ]
                   [] route = "generate" -> [ started EXCEPT !.pc = "gen" ]
                   [] OTHER -> [ started EXCEPT
                                   !.pc = "done",
                                   !.resp = Response(400, route, << >>, NoUrl) ] ]
    /\ UNCHANGED << workload, settings, hostOffset, store, now, nextSeq, deleted, raced >>

\* SELECT id FROM redirects WHERE id = key.toLowerCase() and what follows the
\* await: 409 when a row came back, else id = key.toLowerCase() and the INSERT
\* is issued.  On an error the promise rejects, and the await stands outside
\* every try of the handler.
AddCheckKey(r) ==
    /\ req[r].op = "add"
    /\ req[r].pc = "check"
    /\ \E outcome \in StatementOutcomes :
         LET lower == CustomId(req[r].key)
         IN  IF outcome = "error"
             THEN /\ \E rejection \in RejectionOutcomes :
                        req' = [ req EXCEPT
                            ![r].failed = "check",
                            ![r].pc =
                                IF rejection = "answered"
                                THEN "done" ELSE "unanswered",
                            ![r].resp =
                                IF rejection = "answered"
                                THEN Response(500, "Internal Server Error",
                                              << >>, NoUrl)
                                ELSE NoResponse ]
                  /\ raced' = raced
             ELSE IF KeyTaken(store, req[r].key)
             THEN /\ req' = [ req EXCEPT
                        ![r].pc = "done",
                        ![r].resp = Response(409,
                            "Custom key already exists. Choose a different key.",
                            << >>, NoUrl) ]
                  /\ raced' = raced
             ELSE /\ req' = [ req EXCEPT
                        ![r].pc = "insert",
                        ![r].id = lower ]
                  /\ raced' = raced \cup RacedWith(r, lower)
    /\ UNCHANGED << workload, settings, hostOffset, store, now, nextSeq, deleted >>

\* One iteration of the loop of generateBase32Id: a candidate from a fresh
\* digest, its existence check, and what follows the await.  The tenth
\* collision throws, and so does an error of the check; the handler catches
\* either and answers 500.  attempts is a local of generateBase32Id: it is
\* gone once the function has returned an id.  candidate is a history field:
\* the id of the last existence check that this request has been answered.
AddGenerate(r) ==
    /\ req[r].op = "add"
    /\ req[r].pc = "gen"
    /\ LoopContinues(req[r].attempts)
    /\ \E hash \in Digests, outcome \in StatementOutcomes :
         LET id == EncodeId(hash, maxBase32Length)
         IN  IF outcome = "error"
             THEN /\ req' = [ req EXCEPT
                        ![r].failed = "gen",
                        ![r].pc = "done",
                        ![r].resp = Response(500, "Unable to generate unique ID",
                                             << >>, NoUrl) ]
                  /\ raced' = raced
             ELSE IF CandidateFree(store, id)
             THEN /\ req' = [ req EXCEPT
                        ![r].pc = "insert",
                        ![r].attempts = 0,
                        ![r].candidate = id,
                        ![r].id = id ]
                  /\ raced' = raced \cup RacedWith(r, id)
             ELSE /\ req' = [ req EXCEPT
                        ![r].attempts = @ + 1,
                        ![r].candidate = id,
                        ![r].pc =
                            IF LoopContinues(req[r].attempts + 1)
                            THEN "gen" ELSE "done",
                        ![r].resp =
                            IF LoopContinues(req[r].attempts + 1)
                            THEN NoResponse
                            ELSE Response(500, "Unable to generate unique ID",
                                          << >>, NoUrl) ]
                  /\ raced' = raced
    /\ UNCHANGED << workload, settings, hostOffset, store, now, nextSeq, deleted >>

\* INSERT INTO redirects (id, url) and its callback: 500 on an error, else
\* the success body with base32_id and original_url.
AddInsert(r) ==
    /\ req[r].op = "add"
    /\ req[r].pc = "insert"
    /\ \E outcome \in StatementOutcomes :
         IF outcome = "error"
         THEN /\ req' = [ req EXCEPT
                    ![r].failed = "insert",
                    ![r].pc = "done",
                    ![r].resp = DatabaseError ]
              /\ UNCHANGED << store, nextSeq, now >>
         ELSE IF PrimaryKeyConflict(store, req[r].id)
         THEN /\ req' = [ req EXCEPT
                    ![r].pc = "done",
                    ![r].rejected = TRUE,
                    ![r].resp = DatabaseError ]
              /\ UNCHANGED << store, nextSeq, now >>
         ELSE /\ \E t \in ClockReadings :
                      /\ now' = t
                      /\ store' = InsertRow(store, nextSeq, req[r].id, req[r].url, t)
              /\ nextSeq' = nextSeq + 1
              /\ req' = [ req EXCEPT
                    ![r].pc = "done",
                    ![r].created = nextSeq,
                    ![r].resp = Response(200, "success", req[r].id, req[r].url) ]
    /\ UNCHANGED << workload, settings, hostOffset, deleted, raced >>

\* ---------------------------------------------------------- GET /:base32id

\* The path parameter as given, not lowercased.
RedirectIdAsGiven(p) == p

\* const id = req.params.base32id.toLowerCase()
RedirectId(p) == ToLowerCase(p)

\* The handler: id = req.params.base32id.toLowerCase(), the SELECT is issued.
RedirectStart(r) ==
    /\ CanStart(r)
    /\ \E p \in ParamInputs :
         req' = [ req EXCEPT ![r] =
                    [ @ EXCEPT !.op = "redirect", !.pc = "lookup",
                               !.param = p, !.id = RedirectId(p) ] ]
    /\ UNCHANGED << workload, settings, hostOffset, store, now, nextSeq, deleted, raced >>

\* The miss answered without its status: res.send('Redirect not found').
RedirectMissAnsweredOk == Response(200, "Redirect not found", << >>, NoUrl)

\* res.status(404).send('Redirect not found')
RedirectNotFound == Response(404, "Redirect not found", << >>, NoUrl)

\* The hit whose response is left to the callback of the UPDATE.
RedirectAwaitsUpdate(row) == NoResponse

\* res.redirect(row.url), in the callback of the lookup.
RedirectFound(row) == Response(302, "redirect", << >>, row.url)

\* The callback of the UPDATE answering its error: res.status(500).
UpdateErrorSurfaced(resp, outcome) ==
    IF outcome = "error" THEN DatabaseError ELSE resp

\* The response once the callback of the UPDATE has run:
\* (err) => { if (err) console.error(err); } leaves it as it was.
AfterUpdate(resp, outcome) == resp

\* SELECT * FROM redirects WHERE id = ? and its callback: 500 on an error;
\* with a row, the UPDATE is issued and the redirect to row.url is sent;
\* without, 404.
RedirectLookup(r) ==
    /\ req[r].op = "redirect"
    /\ req[r].pc = "lookup"
    /\ \E outcome \in StatementOutcomes :
         IF outcome = "error"
         THEN req' = [ req EXCEPT
                  ![r].failed = "lookup",
                  ![r].pc = "done",
                  ![r].resp = DatabaseError ]
         ELSE IF RowsById(store, req[r].id) # {}
         THEN \E row \in RowsById(store, req[r].id) :
                req' = [ req EXCEPT
                    ![r].pc = "update",
                    ![r].row = IdAndUrl(row),
                    ![r].resp = RedirectFound(row) ]
         ELSE req' = [ req EXCEPT
                    ![r].pc = "done",
                    ![r].resp = RedirectNotFound ]
    /\ UNCHANGED << workload, settings, hostOffset, store, now, nextSeq, deleted, raced >>

\* The UPDATE issued by the lookup's callback runs; its callback only logs.
RedirectUpdate(r) ==
    /\ req[r].op = "redirect"
    /\ req[r].pc = "update"
    /\ \E outcome \in StatementOutcomes :
         /\ IF outcome = "error"
            THEN UNCHANGED << store, now >>
            ELSE \E t \in ClockReadings :
                   /\ now' = t
                   /\ store' = RecordVisit(store, req[r].id, t)
         /\ req' = [ req EXCEPT
                ![r].pc = "done",
                ![r].failed = IF outcome = "error" THEN "update" ELSE @,
                ![r].resp = AfterUpdate(@, outcome) ]
    /\ UNCHANGED << workload, settings, hostOffset, nextSeq, deleted, raced >>

\* --------------------------------------------------- DELETE /api/delete/:id

\* id.toLowerCase(), the parameter of the SELECT and of the DELETE.
DeleteId(p) == ToLowerCase(p)

\* The handler: the SELECT by id.toLowerCase() is issued.
DeleteStart(r) ==
    /\ CanStart(r)
    /\ \E p \in ParamInputs :
         req' = [ req EXCEPT ![r] =
                    [ @ EXCEPT !.op = "delete", !.pc = "dlookup",
                               !.param = p, !.id = DeleteId(p) ] ]
    /\ UNCHANGED << workload, settings, hostOffset, store, now, nextSeq, deleted, raced >>

\* The miss answered as a success: res.json without status(404).
DeleteMissAnsweredOk ==
    Response(200, "Redirect deleted successfully", << >>, NoUrl)

\* res.status(404).json({ error: 'Redirect not found' })
DeleteNotFound == Response(404, "Redirect not found", << >>, NoUrl)

\* SELECT * FROM redirects WHERE id = ? and its callback: 500 on an error,
\* 404 without a row, else the DELETE is issued.
DeleteLookup(r) ==
    /\ req[r].op = "delete"
    /\ req[r].pc = "dlookup"
    /\ \E outcome \in StatementOutcomes :
         IF outcome = "error"
         THEN req' = [ req EXCEPT
                  ![r].failed = "dlookup",
                  ![r].pc = "done",
                  ![r].resp = DatabaseError ]
         ELSE IF RowsById(store, req[r].id) # {}
         THEN \E row \in RowsById(store, req[r].id) :
                req' = [ req EXCEPT ![r].pc = "ddelete", ![r].row = IdAndUrl(row) ]
         ELSE req' = [ req EXCEPT
                    ![r].pc = "done",
                    ![r].resp = DeleteNotFound ]
    /\ UNCHANGED << workload, settings, hostOffset, store, now, nextSeq, deleted, raced >>

\* DELETE FROM redirects WHERE id = ? and its callback: 500 on an error,
\* else the success body carries the id and url of the row the SELECT
\* returned.  History: the rows this statement removed, and the serial number
\* the next inserted row will get.
DeleteRun(r) ==
    /\ req[r].op = "delete"
    /\ req[r].pc = "ddelete"
    /\ \E outcome \in StatementOutcomes :
         IF outcome = "error"
         THEN /\ req' = [ req EXCEPT
                    ![r].failed = "ddelete",
                    ![r].pc = "done",
                    ![r].resp = DatabaseError ]
              /\ UNCHANGED << store, deleted >>
         ELSE /\ store' = DeleteRows(store, req[r].id)
              /\ deleted' = deleted \cup
                     { row.seq : row \in RowsById(store, req[r].id) }
              /\ req' = [ req EXCEPT
                    ![r].pc = "done",
                    ![r].removed =
                        { IdAndUrl(row) : row \in RowsById(store, req[r].id) },
                    ![r].at = nextSeq,
                    ![r].resp = Response(200, "Redirect deleted successfully",
                                         req[r].row.id, req[r].row.url) ]
    /\ UNCHANGED << workload, settings, hostOffset, now, nextSeq, raced >>

\* ------------------------------------------------------------ GET /api/check

\* The handler: validation of query.url, then the SELECT by url is issued.
CheckStart(r) ==
    /\ CanStart(r)
    /\ \E u \in UrlInputs :
         LET started == [ req[r] EXCEPT !.op = "check", !.url = u ]
         IN  req' = [ req EXCEPT ![r] =
                 IF u = NoUrl
                 THEN [ started EXCEPT
                          !.pc = "done",
                          !.resp = Response(400, "URL parameter is required",
                                            << >>, NoUrl) ]
                 ELSE IF ~UrlParses(u)
                      THEN [ started EXCEPT
                               !.pc = "done",
                               !.resp = Response(400, "Invalid URL format",
                                                 << >>, NoUrl) ]
                      ELSE [ started EXCEPT !.pc = "clookup" ] ]
    /\ UNCHANGED << workload, settings, hostOffset, store, now, nextSeq, deleted, raced >>

\* new Date(text).toISOString() of a stored time: SQLite stores UTC as
\* 'YYYY-MM-DD HH:MM:SS', Date parses a text without a zone as local time of
\* the host, and toISOString prints the instant in UTC.
IsoOfStoredTime(t, offset) == t + offset

\* The body of a check that found a row.
CheckFound(row, offset) ==
    [ Response(200, "exists", row.id, row.url) EXCEPT
        !.details =
            [ created    |-> IsoOfStoredTime(row.created, offset),
              visits     |-> row.visits,
              last_visit |-> IF row.last_visit # NULL
                             THEN IsoOfStoredTime(row.last_visit, offset)
                             ELSE NULL ] ]

\* SELECT * FROM redirects WHERE url = ? and its callback: 500 on an error.
\* db.get hands over one of the matching rows; SQL fixes no order among them.
CheckLookup(r) ==
    /\ req[r].op = "check"
    /\ req[r].pc = "clookup"
    /\ \E outcome \in StatementOutcomes :
         IF outcome = "error"
         THEN req' = [ req EXCEPT
                  ![r].failed = "clookup",
                  ![r].pc = "done",
                  ![r].resp = DatabaseError ]
         ELSE IF RowsByUrl(store, req[r].url) # {}
         THEN \E row \in RowsByUrl(store, req[r].url) :
                req' = [ req EXCEPT
                    ![r].pc = "done",
                    ![r].row = row,
                    ![r].resp = CheckFound(row, hostOffset) ]
         ELSE req' = [ req EXCEPT
                    ![r].pc = "done",
                    ![r].resp = Response(200, "No redirect found for this URL",
                                         << >>, NoUrl) ]
    /\ UNCHANGED << workload, settings, hostOffset, store, now, nextSeq, deleted, raced >>

\* --------------------------------------------------------- GET /human/browse

\* The handler: the SELECT of the whole table is issued.
BrowseStart(r) ==
    /\ CanStart(r)
    /\ req' = [ req EXCEPT ![r].op = "browse", ![r].pc = "blookup" ]
    /\ UNCHANGED << workload, settings, hostOffset, store, now, nextSeq, deleted, raced >>

\* The results of the SELECT with ORDER BY created ASC.
RowsOldestFirst(s) ==
    { rows \in [ 1..Cardinality(s) -> s ] :
        /\ \A i, j \in 1..Cardinality(s) : rows[i] = rows[j] => i = j
        /\ \A i, j \in 1..Cardinality(s) :
               i < j => rows[i].created <= rows[j].created }

\* The results of SELECT * FROM s ORDER BY created DESC: every row once, a
\* later created first; SQL fixes no order among rows created in one second.
RowsNewestFirst(s) ==
    { rows \in [ 1..Cardinality(s) -> s ] :
        /\ \A i, j \in 1..Cardinality(s) : rows[i] = rows[j] => i = j
        /\ \A i, j \in 1..Cardinality(s) :
               i < j => rows[i].created >= rows[j].created }

\* db.all and its callback: 500 on an error, else the page of the rows.
BrowseList(r) ==
    /\ req[r].op = "browse"
    /\ req[r].pc = "blookup"
    /\ \E outcome \in StatementOutcomes :
         IF outcome = "error"
         THEN req' = [ req EXCEPT
                  ![r].failed = "blookup",
                  ![r].pc = "done",
                  ![r].resp = DatabaseError ]
         ELSE \E rows \in RowsNewestFirst(store) :
                req' = [ req EXCEPT
                    ![r].pc = "done",
                    ![r].listing = rows,
                    ![r].resp = Response(200, "All Redirects", << >>, NoUrl) ]
    /\ UNCHANGED << workload, settings, hostOffset, store, now, nextSeq, deleted, raced >>

\* ------------------- GET /qr/:id/png, /download/qr/:id/png, /download/qr/:id/svg

\* The handlers: the SELECT by id.toLowerCase() is issued; the parameter is
\* matched against no pattern.
QrStart(r) ==
    /\ CanStart(r)
    /\ \E p \in ParamInputs, route \in QrRouteInputs :
         req' = [ req EXCEPT
             ![r].op = "qr",
             ![r].route = route,
             ![r].param = p,
             ![r].id = ToLowerCase(p),
             ![r].pc = "qlookup" ]
    /\ UNCHANGED << workload, settings, hostOffset, store, now, nextSeq, deleted, raced >>

\* What generateQRCode can do: it throws when the configured version is too
\* small for the text, and under the default configuration it does not.
GenerationOutcomes == IF workload = "faulty" THEN { "ok", "error" } ELSE { "ok" }

\* The code of `qr.local/${row.id}`, or 500 when the generation has thrown.
QrFound(row, generation) ==
    IF generation = "error"
    THEN Response(500, "Failed to generate QR code", << >>, NoUrl)
    ELSE Response(200, "qr.local/", row.id, NoUrl)

\* The SELECT and its callback: 500 on an error, 404 without a row, else the
\* QR code; the turn after the await of generateQRCode reads row.id only.
QrLookup(r) ==
    /\ req[r].op = "qr"
    /\ req[r].pc = "qlookup"
    /\ \E outcome \in StatementOutcomes :
         IF outcome = "error"
         THEN req' = [ req EXCEPT
                  ![r].failed = "qlookup",
                  ![r].pc = "done",
                  ![r].resp = DatabaseError ]
         ELSE IF RowsById(store, req[r].id) # {}
         THEN \E row \in RowsById(store, req[r].id) :
              \E generation \in GenerationOutcomes :
                req' = [ req EXCEPT
                    ![r].pc = "done",
                    ![r].row = row,
                    ![r].resp = QrFound(row, generation) ]
         ELSE req' = [ req EXCEPT
                    ![r].pc = "done",
                    ![r].resp = Response(404, "Redirect not found", << >>, NoUrl) ]
    /\ UNCHANGED << workload, settings, hostOffset, store, now, nextSeq, deleted, raced >>

Next ==
    \/ Startup
    \/ \E r \in Reqs : AddStart(r)
    \/ \E r \in Reqs : AddCheckKey(r)
    \/ \E r \in Reqs : AddGenerate(r)
    \/ \E r \in Reqs : AddInsert(r)
    \/ \E r \in Reqs : RedirectStart(r)
    \/ \E r \in Reqs : RedirectLookup(r)
    \/ \E r \in Reqs : RedirectUpdate(r)
    \/ \E r \in Reqs : DeleteStart(r)
    \/ \E r \in Reqs : DeleteLookup(r)
    \/ \E r \in Reqs : DeleteRun(r)
    \/ \E r \in Reqs : CheckStart(r)
    \/ \E r \in Reqs : CheckLookup(r)
    \/ \E r \in Reqs : BrowseStart(r)
    \/ \E r \in Reqs : BrowseList(r)
    \/ \E r \in Reqs : QrStart(r)
    \/ \E r \in Reqs : QrLookup(r)

Spec == Init /\ [][Next]_vars

SpecWide == InitWide /\ [][Next]_vars

SpecFaulty == InitFaulty /\ [][Next]_vars

SpecSized == InitSized /\ [][Next]_vars

SpecArgs == InitArgs /\ [][Next]_vars

\* ------------------------------------------------- vocabulary of the claims

\* Two characters that differ at most in letter case.
SameLetter(c, d) ==
    \/ c = d
    \/ \E i \in DOMAIN UpperLetters : {c, d} = { UpperLetters[i], LowerLetters[i] }

\* Two strings that differ at most in letter case.
CaseVariant(a, b) ==
    /\ Len(a) = Len(b)
    /\ \A i \in DOMAIN a : SameLetter(a[i], b[i])

\* The error kind of a response, by its status and message.
ErrorKind(resp) ==
    CASE resp.status = 400 /\ resp.body \in
             { "URL is required", "Invalid URL format", "URL parameter is required" }
           -> "InvalidURL"
      [] resp.status = 400 /\ resp.body \in
             { "Custom key must be a string between 1 and N characters",
               "Custom key must contain only base32 characters (A-Z, 2-7)" }
           -> "InvalidKeyFormat"
      [] resp.status = 409 -> "DuplicateKey"
      [] resp.status = 404 -> "NotFound"
      [] resp.status = 500 /\ resp.body = "Unable to generate unique ID"
           -> "AllocationExhausted"
      [] resp.status = 500 /\ resp.body = "Database error" -> "StoreFailure"
      [] OTHER -> "none"

Adds == { r \in Reqs : req[r].op = "add" }

Redirects == { r \in Reqs : req[r].op = "redirect" }

Checks == { r \in Reqs : req[r].op = "check" }

Deletes == { r \in Reqs : req[r].op = "delete" }

Done(r) == req[r].pc = "done"

Succeeded(r) == Done(r) /\ req[r].resp.status = 200

\* Request r takes the step from pc in this transition.
StepsFrom(r, pc) == req[r].pc = pc /\ req'[r] # req[r]

\* The adds that stood at their insert together with r, each with r's id.
Contenders(r) == {r} \cup UNION { pair \in raced : r \in pair }

\* ------------------------------------------------------------------ claims

\* C1: in every reachable state no two rows of the table have ids that are
\* equal after lowercasing.
C1_UniqueNormalizedIds ==
    \A x, y \in store : CaseVariant(x.id, y.id) => x = y

\* C1: two adds raced for one id, one INSERT was rejected, and the row of the
\* other is in the table.
C1_Witness ==
    \E r \in Adds :
        /\ req[r].rejected
        /\ \E row \in store : row.id = req[r].id

\* C2, as claimed: of the adds that stood at their insert with the same id at
\* the same time, once all have responded exactly one has succeeded.
C2_ExactlyOneSucceeds ==
    \A r \in Adds :
        (Contenders(r) # {r} /\ \A q \in Contenders(r) : Done(q))
            => Cardinality({ q \in Contenders(r) : Succeeded(q) }) = 1

\* C2, amended: of the adds that stood at their insert with the same id at
\* the same time, once all have responded at least one has succeeded and has
\* created a record; two of them have succeeded only if the record of one was
\* deleted; every other one has answered 500 and has created nothing.
C2_OneSucceedsUnlessDeleted ==
    \A r \in Adds :
        (Contenders(r) # {r} /\ \A q \in Contenders(r) : Done(q))
            => /\ \E q \in Contenders(r) : Succeeded(q) /\ req[q].created # 0
               /\ \A p, q \in Contenders(r) :
                      (p # q /\ Succeeded(p) /\ Succeeded(q))
                          => (req[p].created \in deleted \/ req[q].created \in deleted)
               /\ \A q \in Contenders(r) :
                      ~Succeeded(q) => /\ req[q].resp.status = 500
                                       /\ req[q].created = 0

\* C2: two adds stood at their insert with the same id; one has succeeded,
\* the other was rejected, and no record was deleted.
C2_Witness ==
    \E p, q \in Adds :
        /\ {p, q} \in raced
        /\ Succeeded(p)
        /\ Done(q) /\ req[q].rejected
        /\ deleted = {}

\* C3, as claimed: an add without a custom key whose INSERT was rejected
\* does not answer with an error for it; it goes on to another candidate.
C3_RejectedInsertIsRetried ==
    \A r \in Adds :
        (~Truthy(req[r].key) /\ req[r].rejected)
            => ~(Done(r) /\ ErrorKind(req[r].resp) = "StoreFailure")

\* C4, as claimed: an add with a custom key whose INSERT was rejected answers
\* DuplicateKey (409).
C4_RejectedInsertIsDuplicateKey ==
    \A r \in Adds :
        (Truthy(req[r].key) /\ req[r].rejected)
            => (req[r].resp.status = 409 /\ ErrorKind(req[r].resp) = "DuplicateKey")

\* C5: when the existence check of an add with a well-formed custom key runs
\* and a row whose id is the key in lower case is in the table, the add
\* answers DuplicateKey (409) and is done, nothing is inserted and the table
\* is as it was.
C5_TakenKeyIsDuplicateKey ==
    [][ \A r \in Reqs :
          ( /\ req[r].op = "add"
            /\ StepsFrom(r, "check")
            /\ \E row \in store :
                  /\ CaseVariant(row.id, req[r].key.str)
                  /\ \A i \in DOMAIN row.id : row.id[i] \notin Range(UpperLetters) )
          => /\ req'[r].pc = "done"
             /\ req'[r].resp.status = 409
             /\ ErrorKind(req'[r].resp) = "DuplicateKey"
             /\ req'[r].created = 0
             /\ store' = store
             /\ nextSeq' = nextSeq ]_vars

\* C5: an add with key "C" has answered 409 while the row "c" is in the table.
C5_Witness ==
    \E r \in Adds :
        /\ req[r].key = KeyString(<<"C">>)
        /\ Done(r) /\ req[r].resp.status = 409
        /\ \E row \in store : row.id = <<"c">>

\* C6: an add without a custom key makes at most maxAttempts existence
\* checks: while it is in the loop fewer than maxAttempts candidates have
\* collided and its next check can run, once it has an id its INSERT can run,
\* and it has answered AllocationExhausted exactly when maxAttempts
\* candidates have collided, and then it has inserted nothing.
C6_AllocationIsBounded ==
    \A r \in Adds :
        ~Truthy(req[r].key)
            => /\ req[r].attempts <= maxAttempts
               /\ req[r].pc = "gen"
                    => (req[r].attempts < maxAttempts /\ ENABLED AddGenerate(r))
               /\ req[r].pc = "insert" => ENABLED AddInsert(r)
               /\ req[r].attempts = maxAttempts
                    <=> (Done(r) /\ ErrorKind(req[r].resp) = "AllocationExhausted")
               /\ req[r].attempts = maxAttempts => req[r].created = 0

\* C6: with length 1 every id a digest encodes to is in the table, and an add
\* without a key has answered AllocationExhausted after maxAttempts collisions.
C6_Witness ==
    \E r \in Adds :
        /\ maxBase32Length = 1
        /\ \A hash \in Digests : \E row \in store : row.id = EncodeId(hash, 1)
        /\ Done(r)
        /\ req[r].attempts = maxAttempts
        /\ req[r].resp = Response(500, "Unable to generate unique ID", << >>, NoUrl)

\* C7, as claimed, at the example the claim gives: an add (with a url that
\* parses) whose key is the empty string, the one string that is not a
\* non-empty string, is rejected with InvalidKeyFormat.
C7_EmptyKeyIsRejected ==
    \A r \in Adds :
        ( /\ UrlParses(req[r].url)
          /\ req[r].key.type = "string"
          /\ Len(req[r].key.str) = 0 )
        => (Done(r) /\ ErrorKind(req[r].resp) = "InvalidKeyFormat")

\* C7, amended: for an add with a url that parses, a key that is the empty
\* string or the number 0 is treated as no key (the add takes the generated
\* path and is never rejected for its key); any other key that is not a
\* string, and any string longer than the configured length, is rejected with
\* the length message, whatever its characters; a string within the length
\* with a character outside the alphabet is rejected with the alphabet
\* message; a well-formed key is not rejected by the validator.
C7_KeyRulesInOrder ==
    \A r \in Adds :
        UrlParses(req[r].url) =>
            LET k == req[r].key
                kind == ErrorKind(req[r].resp)
                falsy == \/ k.type = "undefined"
                         \/ k.type = "number" /\ k.num = 0
                         \/ k.type = "string" /\ Len(k.str) = 0
                tooLong == k.type = "string" /\ Len(k.str) > maxBase32Length
                alien == /\ k.type = "string"
                         /\ \E i \in DOMAIN k.str : ~IsBase32Char(k.str[i])
            IN  /\ falsy => /\ req[r].pc \in { "gen", "insert", "done" }
                            /\ kind \notin { "InvalidKeyFormat", "DuplicateKey" }
                            /\ Succeeded(r) =>
                                 \E hash \in Digests :
                                     req[r].resp.id = EncodeId(hash, maxBase32Length)
                /\ (~falsy /\ (k.type # "string" \/ tooLong))
                     => /\ Done(r)
                        /\ req[r].resp = Response(400,
                             "Custom key must be a string between 1 and N characters",
                             << >>, NoUrl)
                /\ (~falsy /\ k.type = "string" /\ ~tooLong /\ alien)
                     => /\ Done(r)
                        /\ req[r].resp = Response(400,
                             "Custom key must contain only base32 characters (A-Z, 2-7)",
                             << >>, NoUrl)
                /\ (~falsy /\ k.type = "string" /\ ~tooLong /\ ~alien)
                     => /\ req[r].pc \in { "check", "insert", "done" }
                        /\ kind # "InvalidKeyFormat"

\* C7: an add whose key is the empty string has succeeded with a generated id.
C7_Witness ==
    \E r \in Adds :
        /\ req[r].key = KeyString(<< >>)
        /\ Succeeded(r)
        /\ req[r].created # 0
        /\ \E row \in store : row.seq = req[r].created /\ row.id = req[r].resp.id

\* C8, as claimed: every add that supplies a string key longer than the
\* configured length, or with a character outside [A-Z2-7] in either case, is
\* rejected with InvalidKeyFormat (400) and creates no record.
C8_MalformedKeyIsInvalidKeyFormat ==
    \A r \in Adds :
        ( /\ req[r].key.type = "string"
          /\ \/ Len(req[r].key.str) > maxBase32Length
             \/ \E i \in DOMAIN req[r].key.str : ~IsBase32Char(req[r].key.str[i]) )
        => /\ Done(r)
           /\ req[r].resp.status = 400
           /\ ErrorKind(req[r].resp) = "InvalidKeyFormat"
           /\ req[r].created = 0

\* C8, amended: every such add is rejected with status 400 and creates no
\* record; the error is InvalidKeyFormat when the url is present and parses,
\* and InvalidURL when it is not.
C8_MalformedKeyIsRejected ==
    \A r \in Adds :
        ( /\ req[r].key.type = "string"
          /\ \/ Len(req[r].key.str) > maxBase32Length
             \/ \E i \in DOMAIN req[r].key.str : ~IsBase32Char(req[r].key.str[i]) )
        => /\ Done(r)
           /\ req[r].resp.status = 400
           /\ req[r].created = 0
           /\ \A row \in store : row.id # req[r].key.str
           /\ ErrorKind(req[r].resp) =
                 IF UrlParses(req[r].url) THEN "InvalidKeyFormat" ELSE "InvalidURL"

\* C8: with length 2 and a url that parses, the add with key "c!" has been
\* rejected with the alphabet message.
C8_Witness ==
    \E r \in Adds :
        /\ maxBase32Length = 2
        /\ UrlParses(req[r].url)
        /\ req[r].key = KeyString(<<"c","!">>)
        /\ req[r].resp = Response(400,
               "Custom key must contain only base32 characters (A-Z, 2-7)",
               << >>, NoUrl)

\* C9: when the lookup of a redirect runs, and an add with a custom key has
\* succeeded, and the record it created has not been deleted, and the path
\* parameter is the key in any letter case, the redirect answers 302 to the
\* url of that add and the row it found is the one that add created.
C9_AnyCaseResolves ==
    [][ \A a, r \in Reqs :
          ( /\ req[a].op = "add"
            /\ req[a].key.type = "string" /\ Len(req[a].key.str) >= 1
            /\ Succeeded(a)
            /\ req[a].created \notin deleted
            /\ req[r].op = "redirect"
            /\ StepsFrom(r, "lookup")
            /\ CaseVariant(req[r].param, req[a].key.str) )
          => /\ req'[r].resp.status = 302
             /\ req'[r].resp.url = req[a].url
             /\ req'[r].row.seq = req[a].created ]_vars

\* C9: the add with key "c" has succeeded and the redirect for "C" has
\* answered 302 with the row that add created.
C9_Witness ==
    \E a \in Adds, r \in Redirects :
        /\ req[a].key = KeyString(<<"c">>)
        /\ Succeeded(a)
        /\ req[r].param = <<"C">>
        /\ req[r].resp.status = 302
        /\ req[r].row.seq = req[a].created

\* C10, as claimed: when the counter update of a redirect runs, the record
\* its lookup found has its visits raised by exactly 1 and its last_visit set
\* to the current time.
C10_FoundRecordIsCounted ==
    [][ \A r \in Reqs :
          (req[r].op = "redirect" /\ StepsFrom(r, "update"))
          => \E x \in store, y \in store' :
                 /\ x.seq = req[r].row.seq
                 /\ y.seq = x.seq
                 /\ y.visits = x.visits + 1
                 /\ y.last_visit = now' ]_vars

\* C10, amended: the counter update of a redirect runs once; it raises by
\* exactly 1 the visits, and sets to the current time the last_visit, of the
\* row that has the looked-up id when it runs, and leaves every other row and
\* every other field as it was; the row the lookup found is counted whenever
\* it is still in the table.
C10_LiveRecordIsCounted ==
    [][ \A r \in Reqs :
          (req[r].op = "redirect" /\ StepsFrom(r, "update"))
          => /\ req'[r].pc = "done"
             /\ now' >= now
             /\ Cardinality(store') = Cardinality(store)
             /\ \A x \in store :
                    IF x.id = req[r].id
                    THEN [ x EXCEPT !.visits = x.visits + 1,
                                    !.last_visit = now' ] \in store'
                    ELSE x \in store'
             /\ \A x \in store :
                    x.seq = req[r].row.seq
                        => \E y \in store' :
                               /\ y.seq = x.seq
                               /\ y.visits = x.visits + 1
                               /\ y.last_visit = now' ]_vars

\* C10: a redirect is done and the row its lookup found is in the table with
\* one visit and a last_visit later than its creation.
C10_Witness ==
    \E r \in Redirects :
        /\ Done(r)
        /\ req[r].resp.status = 302
        /\ \E x \in store :
               /\ x.seq = req[r].row.seq
               /\ x.visits = 1
               /\ x.last_visit > x.created

\* C11: when the lookup of a redirect runs without an error of the store and
\* no row of the table has the path parameter, in any letter case, as its id,
\* the redirect answers NotFound (404) and is done, no row is created and
\* every row is as it was; and a redirect that has answered 404 takes no
\* further step.
C11_MissIsNotFound ==
    [][ \A r \in Reqs :
          /\ ( /\ req[r].op = "redirect"
               /\ StepsFrom(r, "lookup")
               /\ req'[r].failed = "none"
               /\ \A row \in store : ~CaseVariant(row.id, req[r].param) )
             => /\ req'[r].pc = "done"
                /\ req'[r].resp.status = 404
                /\ ErrorKind(req'[r].resp) = "NotFound"
                /\ store' = store
                /\ nextSeq' = nextSeq
          /\ ( /\ req[r].op = "redirect"
               /\ Done(r)
               /\ req[r].resp.status = 404 )
             => req'[r] = req[r] ]_vars

\* C11: the redirect for "6" has answered 404 while the table holds a row
\* that was never visited.
C11_Witness ==
    \E r \in Redirects :
        /\ req[r].param = <<"6">>
        /\ Done(r)
        /\ req[r].resp.status = 404
        /\ \E row \in store : row.visits = 0 /\ row.last_visit = NULL

\* C12: a redirect whose counter update failed is done and its response is
\* the redirect (302) to the url of the row its lookup found, no error.
C12_FailedUpdateKeepsRedirect ==
    \A r \in Redirects :
        req[r].failed = "update"
            => /\ Done(r)
               /\ req[r].resp.status = 302
               /\ req[r].resp.url = req[r].row.url
               /\ ErrorKind(req[r].resp) = "none"

\* C12: the counter update of a redirect has failed and the row it was to
\* count is in the table, not counted.
C12_Witness ==
    \E r \in Redirects :
        /\ req[r].failed = "update"
        /\ Done(r)
        /\ \E row \in store : row.seq = req[r].row.seq /\ row.visits = 0

\* C13: the step in which the lookup of a redirect finds a row is the step
\* that issues the response, the redirect (302) to that row's url; the
\* counter update is still to run and the table is as it was; and the step in
\* which the update runs, or fails, leaves the response as it was.
C13_ResponseBeforeUpdate ==
    [][ \A r \in Reqs :
          /\ ( /\ req[r].op = "redirect"
               /\ StepsFrom(r, "lookup")
               /\ req'[r].failed = "none"
               /\ \E row \in store : CaseVariant(row.id, req[r].param) )
             => /\ req'[r].resp.status = 302
                /\ \E row \in store :
                       /\ CaseVariant(row.id, req[r].param)
                       /\ req'[r].resp.url = row.url
                /\ req'[r].pc = "update"
                /\ store' = store
          /\ ( /\ req[r].op = "redirect"
               /\ StepsFrom(r, "update") )
             => /\ req[r].resp.status = 302
                /\ req'[r].resp = req[r].resp ]_vars

\* C13: a redirect has answered 302, its counter update has not run yet and
\* the row it found is in the table with no visit.
C13_Witness ==
    \E r \in Redirects :
        /\ req[r].resp.status = 302
        /\ req[r].pc = "update"
        /\ \E row \in store : row.seq = req[r].row.seq /\ row.visits = 0

C15_DeletedIdIsNotFound ==
    [][ \A d, r \in Reqs :
          ( /\ req[d].op = "delete"
            /\ Succeeded(d)
            /\ req[r].op = "redirect"
            /\ StepsFrom(r, "lookup")
            /\ req'[r].failed = "none"
            /\ CaseVariant(req[d].param, req[r].param)
            /\ \A a \in Adds :
                   ( /\ req[a].created # 0
                     /\ CaseVariant(req[a].resp.id, req[d].param) )
                   => req[a].created < req[d].at )
          => /\ req'[r].pc = "done"
             /\ req'[r].resp.status = 404
             /\ ErrorKind(req'[r].resp) = "NotFound" ]_vars

\* C15: a delete for "C" has removed a record and answered success, and a
\* redirect for "c" has answered 404.
C15_Witness ==
    \E d \in Deletes, r \in Redirects :
        /\ req[d].param = <<"C">>
        /\ Succeeded(d)
        /\ req[d].removed # {}
        /\ req[r].param = <<"c">>
        /\ Done(r)
        /\ req[r].resp.status = 404

\* C16: when the lookup of a delete runs without an error of the store and no
\* row of the table has the path parameter, in any letter case, as its id,
\* the delete answers NotFound (404) and is done, and the table is as it
\* was; and a delete that has answered 404 has removed nothing and takes no
\* further step.
C16_DeleteMissIsNotFound ==
    [][ \A r \in Reqs :
          /\ ( /\ req[r].op = "delete"
               /\ StepsFrom(r, "dlookup")
               /\ req'[r].failed = "none"
               /\ \A row \in store : ~CaseVariant(row.id, req[r].param) )
             => /\ req'[r].pc = "done"
                /\ req'[r].resp.status = 404
                /\ ErrorKind(req'[r].resp) = "NotFound"
                /\ store' = store
                /\ deleted' = deleted
          /\ ( /\ req[r].op = "delete"
               /\ Done(r)
               /\ req[r].resp.status = 404 )
             => /\ req[r].removed = {}
                /\ req'[r] = req[r] ]_vars

\* C16: a delete has removed a record and another delete for the same id, in
\* any letter case, has answered 404.
C16_Witness ==
    \E d, e \in Deletes :
        /\ Succeeded(d)
        /\ req[d].removed # {}
        /\ Done(e)
        /\ req[e].resp.status = 404
        /\ CaseVariant(req[e].param, req[d].param)

\* C17, as claimed: the id and url in the response of a delete that has
\* answered success are the id and url of a record that the DELETE of this
\* very request removed from the table.
C17_ReportedRecordWasRemoved ==
    \A d \in Deletes :
        Succeeded(d)
            => \E x \in req[d].removed :
                   /\ x.id = req[d].resp.id
                   /\ x.url = req[d].resp.url

\* C18, as claimed: a request one of whose awaited statements has failed (the
\* existence check of a custom key, the existence check of the allocator, the
\* insert, a lookup or a delete; not the counter update) has a response, and
\* the response is a server error (500).
C18_FailureIsAnswered500 ==
    \A r \in Reqs :
        req[r].failed \in
            { "check", "gen", "insert", "lookup", "dlookup", "ddelete", "clookup" }
            => /\ req[r].resp # NoResponse
               /\ req[r].resp.status = 500

\* C19: the step in which an add or a check arrives with a url that is
\* missing or does not parse answers InvalidURL (400) and ends the request;
\* so does, with InvalidKeyFormat, the arrival of an add whose url parses and
\* whose key is a number other than 0, a string longer than the configured
\* length or a string with a character outside [A-Z2-7].  The step leaves
\* the table as it was, the request has issued no statement (its closure
\* holds no id, no row, no attempt and no failure) and takes no further step.
C19_RejectedBeforeStore ==
    [][ \A r \in Reqs :
          LET k == req'[r].key
              badUrl == req'[r].url = NoUrl \/ req'[r].url = "not a url"
              badKey == \/ k.type = "number" /\ k.num # 0
                        \/ /\ k.type = "string"
                           /\ \/ Len(k.str) > maxBase32Length
                              \/ \E i \in DOMAIN k.str : ~IsBase32Char(k.str[i])
              untouched == /\ req'[r].pc = "done"
                           /\ req'[r].resp.status = 400
                           /\ req'[r].id = << >>
                           /\ req'[r].row = NoRow
                           /\ req'[r].attempts = 0
                           /\ req'[r].created = 0
                           /\ req'[r].failed = "none"
                           /\ store' = store
                           /\ nextSeq' = nextSeq
          IN  /\ ( /\ StepsFrom(r, "idle")
                   /\ req'[r].op \in { "add", "check" }
                   /\ badUrl )
                 => (untouched /\ ErrorKind(req'[r].resp) = "InvalidURL")
              /\ ( /\ StepsFrom(r, "idle")
                   /\ req'[r].op = "add"
                   /\ ~badUrl
                   /\ badKey )
                 => (untouched /\ ErrorKind(req'[r].resp) = "InvalidKeyFormat")
              /\ ( /\ Done(r)
                   /\ ErrorKind(req[r].resp) \in { "InvalidURL", "InvalidKeyFormat" } )
                 => req'[r] = req[r] ]_vars

\* C19: a check whose url does not parse has answered 400 over a table that
\* holds a row, and has read nothing of it.
C19_Witness ==
    \E r \in Checks :
        /\ req[r].url = "not a url"
        /\ Done(r)
        /\ ErrorKind(req[r].resp) = "InvalidURL"
        /\ req[r].row = NoRow
        /\ store # {}

\* C20, as claimed: in every reachable state every character of every id in
\* the table is a lowercase letter or one of the digits 2 to 7.
C20_StoredIdsAreBase32 ==
    \A row \in store :
        \A i \in DOMAIN row.id :
            row.id[i] \in Range(LowerLetters) \cup Base32Digits

\* C21: under every configurable length, every id in the table has at least
\* 1 and at most maxBase32Length characters, and the id of a record created
\* by an add without a key (or with a key that counts as none) has exactly
\* maxBase32Length characters.
C21_StoredIdLengths ==
    /\ maxBase32Length \in 1..20
    /\ \A row \in store :
           Len(row.id) >= 1 /\ Len(row.id) <= maxBase32Length
    /\ \A a \in Adds :
           ( /\ req[a].created # 0
             /\ \/ req[a].key.type = "undefined"
                \/ req[a].key.type = "number" /\ req[a].key.num = 0
                \/ req[a].key.type = "string" /\ Len(req[a].key.str) = 0 )
           => /\ Len(req[a].resp.id) = maxBase32Length
              /\ \A row \in store :
                     row.seq = req[a].created
                         => Len(row.id) = maxBase32Length

\* C21: under length 20 an add without a key has stored the first twenty
\* characters of the encoding of its digest.
C21_Witness ==
    \E a \in Adds :
        /\ maxBase32Length = 20
        /\ req[a].key.type = "undefined"
        /\ Succeeded(a)
        /\ \E row \in store :
               /\ row.seq = req[a].created
               /\ row.id = << "6","0","r","3","0","c","1","g","6","0",
                              "r","3","0","c","1","g","6","0","r","3" >>

\* C22: in every step, a row that enters the table has visits 0, a row that
\* stays in the table has its visits as they were or higher, and no row of
\* the table has visits below 0.
C22_VisitsNeverDecrease ==
    [][ /\ \A y \in store' :
               (\A x \in store : x.seq # y.seq) => y.visits = 0
        /\ \A x \in store, y \in store' :
               x.seq = y.seq => y.visits >= x.visits
        /\ \A y \in store' : y.visits >= 0 ]_vars

\* C22: a row of the table has been counted twice.
C22_Witness ==
    \E row \in store : row.visits = 2

\* C23, as claimed: the step in which the lookup of a check runs leaves the
\* table as it was; when some row of the table has the queried url, the check
\* answers 200, exists, with the id, url, creation time, visits and last
\* visit of such a row; when none has, it answers 200 with the not-found
\* message.
C23_CheckReportsRecord ==
    [][ \A c \in Reqs :
          (req[c].op = "check" /\ StepsFrom(c, "clookup"))
          => /\ store' = store
             /\ req'[c].resp.status = 200
             /\ IF \E row \in store : row.url = req[c].url
                THEN \E row \in store :
                       /\ row.url = req[c].url
                       /\ req'[c].resp.body = "exists"
                       /\ req'[c].resp.id = row.id
                       /\ req'[c].resp.url = row.url
                       /\ req'[c].resp.details.created = row.created
                       /\ req'[c].resp.details.visits = row.visits
                       /\ req'[c].resp.details.last_visit = row.last_visit
                ELSE req'[c].resp.body = "No redirect found for this URL" ]_vars

\* C24, as claimed: an add that has inserted its record and has responded
\* carries status 201 in its response.
C24_CreatedIs201 ==
    \A a \in Adds :
        (Done(a) /\ req[a].created # 0) => req[a].resp.status = 201

\* C25: the step in which an add answers success adds exactly one row to the
\* table and removes none; the id of that row is the id in the response, its
\* url is the url of the request, its visits are 0 and its last_visit is
\* NULL; and an add answers success in no other step.
C25_SuccessInsertsOneRecord ==
    [][ \A a \in Reqs :
          ( /\ req'[a].op = "add"
            /\ req'[a].resp.body = "success"
            /\ req[a].resp.body # "success" )
          => /\ req[a].pc = "insert"
             /\ store \subseteq store'
             /\ Cardinality(store' \ store) = 1
             /\ \A y \in store' \ store :
                    /\ y.id = req'[a].resp.id
                    /\ y.url = req[a].url
                    /\ y.url = req'[a].resp.url
                    /\ y.visits = 0
                    /\ y.last_visit = NULL
                    /\ y.seq = req'[a].created ]_vars

\* C25: the add of http://b with key "C" has answered success and its record
\* is in the table under id "c", never visited.
C25_Witness ==
    \E a \in Adds :
        /\ req[a].key = KeyString(<<"C">>)
        /\ req[a].resp.body = "success"
        /\ \E row \in store :
               /\ row.seq = req[a].created
               /\ row.id = <<"c">>
               /\ row.url = "http://b"
               /\ row.visits = 0

\* C26: for every row of the table under whose id no record was ever
\* deleted, the visits of the row are the number of redirects that found it
\* and whose counter update has been applied, however the lookups and the
\* updates of those redirects were interleaved.
C26_NoLostVisit ==
    \A row \in store :
        (\A d \in Deletes : \A x \in req[d].removed : x.id # row.id)
            => row.visits =
                   Cardinality({ r \in Redirects :
                                   /\ Done(r)
                                   /\ req[r].resp.status = 302
                                   /\ req[r].failed = "none"
                                   /\ req[r].row.seq = row.seq })

\* C26: two redirects, for "c" and for "C", have found the same row, both
\* updates have been applied and the row has two visits.
C26_Witness ==
    \E p, q \in Redirects :
        /\ req[p].param = <<"c">>
        /\ req[q].param = <<"C">>
        /\ Done(p) /\ req[p].failed = "none"
        /\ Done(q) /\ req[q].failed = "none"
        /\ req[p].row.seq = req[q].row.seq
        /\ \E row \in store : row.seq = req[p].row.seq /\ row.visits = 2

\* C27, as claimed: the visits of every row of the table are at most the
\* number of redirects whose lookup found that very record.
C27_VisitsAreOfFoundRecord ==
    \A row \in store :
        row.visits <=
            Cardinality({ r \in Redirects : req[r].row.seq = row.seq })

\* C28, as claimed: of the deletes whose lookup found one and the same record,
\* at most one answers success.
C28_OneDeleteSucceeds ==
    \A d, e \in Deletes :
        ( /\ Succeeded(d)
          /\ Succeeded(e)
          /\ req[d].row.seq # 0
          /\ req[d].row.seq = req[e].row.seq )
            => d = e

\* C29: in every step, a record that is in the table before and after it
\* keeps its id, url and created; if any of its fields differs, the step is
\* the counter update of a redirect with the record's id; and a step of an
\* add, a check, a listing or a QR request leaves every field of every record
\* that stays in the table as it was.
C29_LiveRecordKeepsIdentity ==
    [][ \A row \in store : \A new \in store' :
          new.seq = row.seq
            => /\ new.id = row.id
               /\ new.url = row.url
               /\ new.created = row.created
               /\ new # row
                    => \E r \in Reqs :
                         /\ req[r].op = "redirect"
                         /\ StepsFrom(r, "update")
                         /\ ToLowerCase(req[r].param) = row.id
               /\ \A r \in Reqs :
                    ( /\ req'[r] # req[r]
                      /\ req'[r].op \in { "add", "check", "browse", "qr" } )
                        => new = row ]_vars

\* C29: the record created at 1 has been visited at 2, its created is still
\* 1, and a listing returned after the visit shows it so.
C29_Witness ==
    \E r \in Redirects, b \in Reqs :
        /\ Done(r) /\ req[r].failed = "none" /\ req[r].row.seq = 1
        /\ req[b].op = "browse" /\ Done(b)
        /\ \E row \in store :
               /\ row.seq = 1
               /\ row.created = 1
               /\ row.visits = 1
               /\ row.last_visit = 2
               /\ req[b].listing = << row >>

\* C30: in every step, a record that is in the table before it and not after
\* it is removed by the DELETE of a delete request whose lowercased parameter
\* is the record's id: no step of an add, a redirect, a check, a listing or a
\* QR request, and no step of the clock, takes a record out of the table.
C30_OnlyDeleteRemoves ==
    [][ \A row \in store :
          (\A new \in store' : new.seq # row.seq)
            => \E d \in Reqs :
                 /\ req[d].op = "delete"
                 /\ StepsFrom(d, "ddelete")
                 /\ ToLowerCase(req[d].param) = row.id ]_vars

\* C30: a delete for "C" has removed the record of id "c" while the record
\* that an add created under another id is still in the table.
C30_Witness ==
    \E d \in Deletes, a \in Adds :
        /\ Done(d)
        /\ req[d].param = <<"C">>
        /\ \E x \in req[d].removed : x.id = <<"c">> /\ x.seq = 1
        /\ \A row \in store : row.seq # 1
        /\ req[a].created # 0
        /\ \E row \in store : row.seq = req[a].created /\ row.id # <<"c">>

\* C31: in every step in which the existence check of generateBase32Id is
\* answered without an error, the request is in one of the first ten attempts;
\* if no row of the table has the candidate as id, the candidate is returned
\* at once as the id of the add; and if a row has it, the candidate is not
\* returned, the add has no id, and the attempt index is higher by one.
C31_FirstFreeCandidateIsReturned ==
    [][ \A r \in Reqs :
          ( /\ req[r].op = "add"
            /\ StepsFrom(r, "gen")
            /\ req'[r].failed = "none" )
          => /\ req[r].attempts < maxAttempts
             /\ req[r].id = << >>
             /\ (\A row \in store : row.id # req'[r].candidate)
                  => /\ req'[r].pc = "insert"
                     /\ req'[r].id = req'[r].candidate
             /\ (\E row \in store : row.id = req'[r].candidate)
                  => /\ req'[r].pc # "insert"
                     /\ req'[r].id = << >>
                     /\ req'[r].attempts = req[r].attempts + 1 ]_vars

\* C31: one add has had its candidate "c" found in the table and is in its
\* second attempt; another has been returned the candidate "6", which no row
\* of the table has.
C31_Witness ==
    \E p, q \in Adds :
        /\ req[p].pc = "gen"
        /\ req[p].attempts = 1
        /\ req[p].candidate = <<"c">>
        /\ \E row \in store : row.id = <<"c">>
        /\ req[q].pc = "insert"
        /\ req[q].candidate = <<"6">>
        /\ req[q].id = <<"6">>
        /\ \A row \in store : row.id # <<"6">>

\* C32, as claimed: an add answers 'Unable to generate unique ID' only after
\* ten candidates have each been found in the table, and never when one of
\* the existence checks of generateBase32Id has failed.
C32_ExhaustionOnlyAfterTenCollisions ==
    \A a \in Adds :
        req[a].resp.body = "Unable to generate unique ID"
            => /\ req[a].attempts = maxAttempts
               /\ req[a].failed = "none"

\* C33: in every reachable state, a row of the table has no last_visit
\* exactly if its visits are 0.
C33_LastVisitIffVisited ==
    \A row \in store : (row.last_visit = NULL) <=> (row.visits = 0)

\* C33: a redirect has counted its visit in the second in which the record
\* was created: the row has one visit and a last_visit, while its created is
\* the same reading of the clock.
C33_Witness ==
    \E r \in Redirects :
        /\ Done(r) /\ req[r].failed = "none"
        /\ \E row \in store :
               /\ row.seq = req[r].row.seq
               /\ row.visits = 1
               /\ row.last_visit = row.created
               /\ row.last_visit # NULL

\* C34: in every step of an add, a redirect or a delete, the rows of the
\* table whose id differs from the id of the request (the id of the add, the
\* lowercased parameter of the redirect or delete) are the same rows, each
\* with every field as it was, before and after the step.
C34_OtherIdsUntouched ==
    [][ \A r \in Reqs :
          ( /\ req'[r] # req[r]
            /\ req'[r].op \in { "add", "redirect", "delete" } )
          => LET target == IF req'[r].op = "add"
                           THEN req'[r].id
                           ELSE ToLowerCase(req'[r].param)
             IN  { row \in store : row.id # target }
                     = { row \in store' : row.id # target } ]_vars

\* C34: the record of id "c" has been visited through a redirect while the
\* record that an add created under another id is in the table, never
\* visited.
C34_Witness ==
    \E r \in Redirects, a \in Adds :
        /\ Done(r) /\ req[r].failed = "none"
        /\ ToLowerCase(req[r].param) = <<"c">>
        /\ \E row \in store : row.id = <<"c">> /\ row.visits = 1
        /\ req[a].created # 0
        /\ \E row \in store :
               /\ row.seq = req[a].created
               /\ row.id # <<"c">>
               /\ row.visits = 0
               /\ row.last_visit = NULL

\* C35: in the step in which a listing is answered without an error, the rows
\* of the page are the rows of the table, each row exactly once, and no row
\* stands before a row with a later created.
C35_ListingIsNewestFirst ==
    [][ \A b \in Reqs :
          ( /\ req[b].op = "browse"
            /\ StepsFrom(b, "blookup")
            /\ req'[b].failed = "none" )
          => LET page == req'[b].listing
             IN  /\ \A row \in store :
                       Cardinality({ i \in DOMAIN page : page[i] = row }) = 1
                 /\ \A i \in DOMAIN page : page[i] \in store
                 /\ \A i, j \in DOMAIN page :
                       i < j => page[i].created >= page[j].created ]_vars

\* C35: a listing has been answered with two rows, the one created at 2
\* before the one created at 1.
C35_Witness ==
    \E b \in Reqs :
        /\ req[b].op = "browse"
        /\ Done(b)
        /\ Len(req[b].listing) = 2
        /\ req[b].listing[1].created = 2
        /\ req[b].listing[2].created = 1

\* The i-th argument is read as an argument of its own, not as the value of
\* the option before it.
RECURSIVE IsPositional(_, _)
IsPositional(argv, i) ==
    \/ i = 1
    \/ ~ ( /\ argv[i - 1] \in QrErrorOption \cup QrVersionOption \cup QrModeOption
           /\ IsPositional(argv, i - 1) )

\* The arguments that are read as a length: parseInt makes a number of them.
LengthArguments(argv) ==
    { i \in DOMAIN argv : IsPositional(argv, i) /\ ~ParseInt(argv[i]).nan }

\* The length arguments whose number is outside 1..20.
LengthsOutOfRange(argv) ==
    { i \in LengthArguments(argv) : ParseInt(argv[i]).value \notin 1..20 }

====
